---- MODULE Spec2Model ----
(***************************************************************************)
(* Model of the SECS estimation engine of norlys-org/model.                *)
(*                                                                         *)
(*   Spec    the SECS object of src/src/model.rs driven by fit / predict   *)
(*   SpecIC  the canister of src/src/lib.rs: the stored model, the stored  *)
(*           predictions and the authorized principals, driven by the      *)
(*           a_* and m_* calls                                             *)
(*                                                                         *)
(* Floating-point values are represented by integers.  The closed-form     *)
(* kernel of t_df.rs and the factorisation computed by nalgebra are        *)
(* integer stand-ins that keep the shapes, the index layout and every      *)
(* argument the real value depends on; everything around them (caching,    *)
(* flattening, filtering, matrix products, indexing, panics) follows the   *)
(* code statement by statement.                                            *)
(*                                                                         *)
(* A Rust panic is an outcome "panic" of the call; the fields assigned     *)
(* before the panicking statement keep their new values, as they do in the *)
(* object the unwinding caller still owns.                                 *)
(***************************************************************************)
EXTENDS Integers, Sequences, FiniteSets, TLC

VARIABLES
    secs,               \* the SECS object (model.rs:39-53)
    ret,                \* the outcome of the last call made on it
    STORED_SECS,        \* lib.rs:29, Option<SECS>
    PREDICTIONS,        \* lib.rs:30, PredictionStorage
    AUTHORIZED_USERS,   \* lib.rs:31, HashSet<Principal>
    reply               \* the outcome of the last canister call

vars == <<secs, ret, STORED_SECS, PREDICTIONS, AUTHORIZED_USERS, reply>>
objectVars == <<secs, ret>>
canisterVars == <<STORED_SECS, PREDICTIONS, AUTHORIZED_USERS, reply>>

(***************************************************************************)
(* Bounds of the model and program constants.                              *)
(***************************************************************************)
MaxLocs == 2        \* longest observation / prediction list passed in
MaxPoles == 2       \* largest pole grid a model is constructed with
R_EARTH == 6        \* geo.rs:4, in model length units
FixedOne == 1000    \* the 1.0 of svd.rs:56 in fixed point

\* Option<T>: None is the empty sequence, Some(x) the one-element sequence.
None == <<>>
Some(x) == <<x>>
IsSome(o) == Len(o) = 1
Unwrap(o) == o[1]

Abs(n) == IF n < 0 THEN -n ELSE n
Min(a, b) == IF a < b THEN a ELSE b

RECURSIVE SumSeq(_)
SumSeq(s) == IF Len(s) = 0 THEN 0 ELSE Head(s) + SumSeq(Tail(s))

RECURSIVE MaxSeq(_)
\* nalgebra's max() of a vector; 0 for the empty vector
MaxSeq(s) == IF Len(s) = 0 THEN 0
             ELSE LET m == MaxSeq(Tail(s)) IN IF Head(s) > m THEN Head(s) ELSE m

\* a sequence given element by element, held as an evaluated tuple
Eager(f) == f \o <<>>

\* A matrix is a sequence of rows; nrows/ncols carry the shape of an empty one.
Mat(nrows, ncols, E(_, _)) ==
    [nrows |-> nrows, ncols |-> ncols,
     a |-> Eager([r \in 1..nrows |-> Eager([c \in 1..ncols |-> E(r, c)])])]
Transpose(m) == Mat(m.ncols, m.nrows, LAMBDA r, c : m.a[c][r])
\* ndarray's dot of two 2-D arrays (the inner dimensions agree at every use)
MatDot(x, y) ==
    Mat(x.nrows, y.ncols,
        LAMBDA r, c : SumSeq([k \in 1..x.ncols |-> x.a[r][k] * y.a[k][c]]))

(***************************************************************************)
(* Input domains.                                                          *)
(***************************************************************************)
\* GeographicalPoint (geo.rs:6-20)
GeographicalPoint(latitude, longitude) == [lat |-> latitude, lon |-> longitude]

\* locations of observations and predictions: two points on longitude 1
Points == {GeographicalPoint(1, 1), GeographicalPoint(2, 1)}

\* lists of at most n distinct elements of S
SeqsUpTo(S, n) ==
    {l \in UNION {[1..k -> S] : k \in 0..n} :
        \A a, b \in DOMAIN l : a /= b => l[a] /= l[b]}
LocLists == SeqsUpTo(Points, MaxLocs)

\* pole grids: n poles on longitude 2, in latitude order, n = 0..MaxPoles
PoleGrids == {[s \in 1..n |-> GeographicalPoint(s, 2)] : n \in 0..MaxPoles}

\* altitudes in model length units: the ground and the ionospheric shell
Altitudes == {0, 1}

\* regularisation epsilon as a fraction num/den: 0.05 and 0.9
Epsilons == {[num |-> 1, den |-> 20], [num |-> 9, den |-> 10]}

\* ObservationVector (model.rs:10-21): the measured field at a point is taken
\* from the point's latitude so that i, j and k differ and differ by point
ObservationVector(p) ==
    [lon |-> p.lon, lat |-> p.lat, i |-> 3 + p.lat, j |-> 5 * p.lat, k |-> 9 - p.lat]
ObsLists == {[n \in DOMAIN l |-> ObservationVector(l[n])] : l \in LocLists}

(***************************************************************************)
(* sphere.rs and t_df.rs: the transfer matrix.                             *)
(***************************************************************************)
\* angular distance theta between two points; 0 exactly for the same lat/lon
Theta(p, s) == Abs(p.lat - s.lat) + Abs(p.lon - s.lon)
\* sine and cosine of the bearing alpha from p to s
SinAlpha(p, s) == 1 + Abs(s.lat - p.lat)
CosAlpha(p, s) == 2 + Abs(s.lon - p.lon)

Radius(altitude) == R_EARTH + altitude

\* Br of one (observation, pole) pair: Eq. A.7 when the observation is above
\* the poles, Eq. 9 otherwise
KernelBr(over, obs_r, sec_r, theta) ==
    IF over THEN 2 * obs_r - sec_r + theta
            ELSE 2 * sec_r - obs_r + 2 * theta

\* B_theta of one pair: Eq. A.8 when over, Eq. 10 otherwise
KernelBtheta(over, obs_r, sec_r, theta) ==
    IF over THEN -(obs_r + sec_r * theta)
            ELSE -(sec_r + obs_r * theta)

\* B_theta / sin(theta), defined as 0 where sin(theta) = 0
BthetaDivided(b_theta, sin_theta) == IF sin_theta = 0 THEN 0 ELSE b_theta

\* T[i][c][j], c = 1 north, 2 east, 3 down, as an array of shape (nobs, 3, nsec)
t_df(obs_locs, obs_altitude, secs_locs, secs_altitude) ==
    LET over == obs_altitude > secs_altitude
        obs_r == Radius(obs_altitude)
        sec_r == Radius(secs_altitude)
        Entry(i, c, j) ==
            LET p == obs_locs[i]
                s == secs_locs[j]
                br == KernelBr(over, obs_r, sec_r, Theta(p, s))
                btd == BthetaDivided(KernelBtheta(over, obs_r, sec_r, Theta(p, s)),
                                     Theta(p, s))
            IN  CASE c = 1 -> -btd * SinAlpha(p, s)
                  [] c = 2 -> -btd * CosAlpha(p, s)
                  [] c = 3 -> -br
    IN  [nobs |-> Len(obs_locs), nsec |-> Len(secs_locs),
         a |-> Eager([i \in 1..Len(obs_locs) |->
                  Eager([c \in 1..3 |->
                    Eager([j \in 1..Len(secs_locs) |-> Entry(i, c, j)])])])]

\* number of elements of the 3-D array (ndarray's len())
ArrayLen(t) == t.nobs * 3 * t.nsec

\* a reshape that puts the rows of one component together: flat row
\* nobs * (c-1) + i holds component c of observation i
IntoShape2ByComponent(t, nrows, ncols) ==
    Mat(nrows, ncols,
        LAMBDA r, j : t.a[((r - 1) % t.nobs) + 1][((r - 1) \div t.nobs) + 1][j])

\* into_shape((nrows, ncols)) of a row-major (nobs, 3, nsec) array with
\* ncols = nsec: flat row 3*(i-1) + c holds component c of observation i
IntoShape2(t, nrows, ncols) ==
    Mat(nrows, ncols, LAMBDA r, j : t.a[((r - 1) \div 3) + 1][((r - 1) % 3) + 1][j])

(***************************************************************************)
(* svd.rs: the truncated pseudo-inverse VWU.                               *)
(***************************************************************************)
\* nalgebra's SVD::new(matrix, true, true) for a non-empty matrix: u is
\* (rows, k), s has k entries, v_t is (k, cols), k = min(rows, cols).  The
\* factors are an integer stand-in: column i of u is column i of the matrix,
\* s[i] its absolute column sum, v_t the leading rows of the identity.
SVD_new(matrix) ==
    LET k == Min(matrix.nrows, matrix.ncols)
    IN  [u |-> Mat(matrix.nrows, k, LAMBDA r, i : matrix.a[r][i]),
         singular_values |->
             Eager([i \in 1..k |->
                      SumSeq([r \in 1..matrix.nrows |-> Abs(matrix.a[r][i])])]),
         v_t |-> Mat(k, matrix.ncols, LAMBDA i, j : IF i = j THEN 1 ELSE 0)]

\* SVD::new asserts that the matrix is not empty
SvdPanics(matrix) == matrix.nrows * matrix.ncols = 0

\* the cutoff turned around: val <= epsilon * s.max()
AboveCutoffInverted(val, epsilon, s_max) == val * epsilon.den <= epsilon.num * s_max

\* val >= epsilon * s.max()
AboveCutoff(val, epsilon, s_max) == val * epsilon.den >= epsilon.num * s_max

\* the f64 infinity that 1.0 / 0.0 is, as a number above every reciprocal
Infinity == 1000000

\* 1.0 / s[idx]
Reciprocal(val) == IF val = 0 THEN Infinity ELSE FixedOne \div val

RECURSIVE ValidIndices(_, _, _, _)
\* the indices i >= from of s, in increasing order, that pass the cutoff
ValidIndices(s, from, epsilon, s_max) ==
    IF from > Len(s) THEN <<>>
    ELSE IF AboveCutoff(s[from], epsilon, s_max)
         THEN <<from>> \o ValidIndices(s, from + 1, epsilon, s_max)
         ELSE ValidIndices(s, from + 1, epsilon, s_max)

\* svd.rs:31-41, valid_indices of a matrix
SvdValidIndices(t_obs_flat, epsilon) ==
    LET s == SVD_new(t_obs_flat).singular_values
    IN  ValidIndices(s, 1, epsilon, MaxSeq(s))

\* svd.rs:55-57, the diagonal of w_diag
SvdWDiag(t_obs_flat, epsilon) ==
    LET s == SVD_new(t_obs_flat).singular_values
        valid_indices == SvdValidIndices(t_obs_flat, epsilon)
    IN  [i \in 1..Len(valid_indices) |-> Reciprocal(s[valid_indices[i]])]

\* secs.rs:339-345, s_inv
SecsSInv(singular_values, epsilon) ==
    LET s_max == MaxSeq(singular_values)
    IN  [i \in 1..Len(singular_values) |->
            IF singular_values[i] * epsilon.den < epsilon.num * s_max
            THEN 0
            ELSE Reciprocal(singular_values[i])]

svd(t_obs_flat, epsilon) ==
    LET dec == SVD_new(t_obs_flat)
        u == dec.u
        s == dec.singular_values
        vh == dec.v_t
        valid_indices == ValidIndices(s, 1, epsilon, MaxSeq(s))
        n == Len(valid_indices)
        u_t == Transpose(Mat(u.nrows, n, LAMBDA i, j : u.a[i][valid_indices[j]]))
        vh_t == Transpose(Mat(n, vh.ncols, LAMBDA i, j : vh.a[valid_indices[i]][j]))
        w_diag == Mat(n, n, LAMBDA i, j :
                        IF i = j THEN Reciprocal(s[valid_indices[i]]) ELSE 0)
    IN  MatDot(vh_t, MatDot(w_diag, u_t))

(***************************************************************************)
(* model.rs: the SECS object, fit and predict.                             *)
(***************************************************************************)
SECS_new(sec_locs, sec_locs_altitude) ==
    [sec_locs |-> sec_locs,
     sec_locs_altitude |-> sec_locs_altitude,
     sec_amps |-> None,
     obs_locs_cache |-> <<>>,
     t_obs_flat_cache |-> None,
     pred_locs_cache |-> <<>>,
     t_pred_cache |-> None]

\* obs_b: the (1, 3 * nobs) array of i, j, k of every observation in turn
ObsB(obs) ==
    Mat(1, Len(obs) * 3,
        LAMBDA r, c : LET o == obs[((c - 1) \div 3) + 1]
                      IN  CASE (c - 1) % 3 = 0 -> o.i
                            [] (c - 1) % 3 = 1 -> o.j
                            [] (c - 1) % 3 = 2 -> o.k)

ObsLocs(obs) == [n \in DOMAIN obs |-> GeographicalPoint(obs[n].lat, obs[n].lon)]

\* model.rs:83-96, the refresh of the observation cache.  The division
\* t.len() / self.sec_locs.len() panics for an empty pole grid before
\* anything is assigned.
CacheObs(self, obs_locs, obs_altitude) ==
    IF obs_locs /= self.obs_locs_cache
    THEN LET t == t_df(obs_locs, obs_altitude, self.sec_locs, self.sec_locs_altitude)
             n == Len(self.sec_locs)
         IN  IF n = 0
             THEN [secs |-> self, panic |-> TRUE, recomputed |-> FALSE]
             ELSE [secs |-> [self EXCEPT
                               !.t_obs_flat_cache = Some(IntoShape2(t, ArrayLen(t) \div n, n)),
                               !.obs_locs_cache = obs_locs],
                   panic |-> FALSE, recomputed |-> TRUE]
    ELSE [secs |-> self, panic |-> FALSE, recomputed |-> FALSE]

\* model.rs:68-101.  outcome is "ok" or "panic".
FitStep(self, obs, obs_altitude, epsilon) ==
    LET obs_b == ObsB(obs)
        cached == CacheObs(self, ObsLocs(obs), obs_altitude)
        s1 == cached.secs
    IN  IF cached.panic
        THEN [secs |-> s1, outcome |-> "panic", recomputed |-> FALSE]
        ELSE IF ~IsSome(s1.t_obs_flat_cache)               \* unwrap() of None
        THEN [secs |-> s1, outcome |-> "panic", recomputed |-> cached.recomputed]
        ELSE IF SvdPanics(Unwrap(s1.t_obs_flat_cache))
        THEN [secs |-> s1, outcome |-> "panic", recomputed |-> cached.recomputed]
        ELSE LET vwu == svd(Unwrap(s1.t_obs_flat_cache), epsilon)
             IN  [secs |-> [s1 EXCEPT !.sec_amps = Some(MatDot(obs_b, Transpose(vwu)))],
                  outcome |-> "ok", recomputed |-> cached.recomputed]

\* a refresh of the prediction cache that also drops the observation cache
CachePredSharedCache(self, pred_locs, pred_altitude) ==
    IF pred_locs /= self.pred_locs_cache
    THEN [self EXCEPT
            !.t_pred_cache =
                Some(t_df(pred_locs, pred_altitude, self.sec_locs, self.sec_locs_altitude)),
            !.pred_locs_cache = pred_locs,
            !.t_obs_flat_cache = None,
            !.obs_locs_cache = <<>>]
    ELSE self

\* model.rs:109-117, the refresh of the prediction cache
CachePred(self, pred_locs, pred_altitude) ==
    IF pred_locs /= self.pred_locs_cache
    THEN [self EXCEPT
            !.t_pred_cache =
                Some(t_df(pred_locs, pred_altitude, self.sec_locs, self.sec_locs_altitude)),
            !.pred_locs_cache = pred_locs]
    ELSE self

\* the matrix of a predict whose line 120 read the cache before the refresh
PredMatrixUsedStale(before, after) == before.t_pred_cache

\* model.rs:120 reads the cache as the refresh left it
PredMatrixUsed(before, after) == after.t_pred_cache

\* index_axis(Axis(1), 0) of the (1, nsec) amplitudes: the 1-element array
\* holding the amplitude of pole 0
AmpsAxis(sec_amps) == <<sec_amps.a[1][1]>>
\* index_axis(Axis(2), 0) of the (n, 3, nsec) array: rows [i][c] of pole 0
TPredAxis(t) == Eager([i \in 1..t.nobs |-> Eager([c \in 1..3 |-> t.a[i][c][1]])])
\* amps * t_pred: the shape-(1,) array broadcast over the (n, 3) array
BroadcastMul(amps, t_pred) ==
    Eager([i \in DOMAIN t_pred |-> Eager([c \in 1..3 |-> amps[1] * t_pred[i][c]])])

PredictionVector(loc, row) ==
    [lon |-> loc.lon, lat |-> loc.lat, i |-> row[1], j |-> row[2], k |-> row[3]]

\* model.rs:103-134.  value is the returned Vec<PredictionVector>.
PredictStep(self, pred_locs, pred_altitude) ==
    LET s1 == CachePred(self, pred_locs, pred_altitude)
        used == PredMatrixUsed(self, s1)
        Panic == [secs |-> s1, outcome |-> "panic", value |-> <<>>]
    IN  IF ~IsSome(s1.sec_amps) THEN Panic                  \* unwrap() of None
        ELSE IF Unwrap(s1.sec_amps).ncols = 0 THEN Panic    \* index 0 of an empty axis
        ELSE IF ~IsSome(used) THEN Panic                    \* unwrap() of None
        ELSE IF Unwrap(used).nsec = 0 THEN Panic            \* index 0 of an empty axis
        ELSE IF Unwrap(used).nobs < Len(pred_locs) THEN Panic  \* pred[[i, 0]] out of bounds
        ELSE LET pred == BroadcastMul(AmpsAxis(Unwrap(s1.sec_amps)),
                                      TPredAxis(Unwrap(used)))
             IN  [secs |-> s1, outcome |-> "ok",
                  value |-> [n \in DOMAIN pred_locs |->
                               PredictionVector(pred_locs[n], pred[n])]]

(***************************************************************************)
(* Spec: one SECS object, any sequence of fit and predict calls.           *)
(***************************************************************************)
NoCall ==
    [op |-> "new", outcome |-> "ok", obs |-> <<>>, locs |-> <<>>, altitude |-> 0,
     epsilon |-> [num |-> 0, den |-> 1], value |-> <<>>, recomputed |-> FALSE,
     again |-> FALSE, before |-> [outcome |-> "ok", value |-> <<>>]]

\* the canister right after installation (lib.rs:28-32)
NoReply ==
    [op |-> "install", caller |-> "anonymous", outcome |-> "ok", flag |-> FALSE,
     recomputed |-> FALSE, users |-> {}, predictions |-> <<>>, scores |-> <<>>]

CanisterInit ==
    /\ STORED_SECS = None
    /\ PREDICTIONS = [abs |-> None, drv |-> None]
    /\ AUTHORIZED_USERS = {}
    /\ reply = NoReply

Init ==
    /\ \E g \in PoleGrids, h \in Altitudes : secs = SECS_new(g, h)
    /\ ret = NoCall
    /\ CanisterInit

Fit ==
    \E obs \in ObsLists, obs_altitude \in Altitudes, epsilon \in Epsilons :
        LET r == FitStep(secs, obs, obs_altitude, epsilon)
        IN  /\ secs' = r.secs
            /\ ret' = [NoCall EXCEPT !.op = "fit", !.outcome = r.outcome, !.obs = obs,
                                     !.locs = ObsLocs(obs), !.altitude = obs_altitude,
                                     !.epsilon = epsilon, !.recomputed = r.recomputed]
            /\ UNCHANGED canisterVars

Predict ==
    \E pred_locs \in LocLists, pred_altitude \in Altitudes :
        LET r == PredictStep(secs, pred_locs, pred_altitude)
            again == /\ ret.op = "predict"
                     /\ ret.locs = pred_locs
                     /\ ret.altitude = pred_altitude
        IN  /\ secs' = r.secs
            /\ ret' = [NoCall EXCEPT
                         !.op = "predict", !.outcome = r.outcome, !.locs = pred_locs,
                         !.altitude = pred_altitude, !.value = r.value,
                         !.recomputed = (pred_locs /= secs.pred_locs_cache),
                         !.again = again,
                         !.before = IF again
                                    THEN [outcome |-> ret.outcome, value |-> ret.value]
                                    ELSE NoCall.before]
            /\ UNCHANGED canisterVars

Next == Fit \/ Predict

Spec == Init /\ [][Next]_vars

\* the amplitude arrays a client writes through the public field: one entry
\* per index, of every length up to one more than the largest pole grid
AmpsWritten == {Mat(1, n, LAMBDA r, c : 7 * c) : n \in 1..(MaxPoles + 1)}

\* model.rs:45, `pub sec_amps`: an assignment secs.sec_amps = Some(amps)
SetAmps ==
    \E amps \in AmpsWritten :
        /\ secs' = [secs EXCEPT !.sec_amps = Some(amps)]
        /\ ret' = [NoCall EXCEPT !.op = "set_amps"]
        /\ UNCHANGED canisterVars

NextPub == Fit \/ Predict \/ SetAmps

\* the object in the hands of a client that also writes its public fields
SpecPub == Init /\ [][NextPub]_vars

(***************************************************************************)
(* overlays.rs: scores of predictions.  A score is an integer number of    *)
(* thousandths (0..10000 for 0.0..10.0); the fitted curves are piecewise   *)
(* linear through the points their comments give.                          *)
(***************************************************************************)
Clamp(x, lo, hi) == IF x < lo THEN lo ELSE IF x > hi THEN hi ELSE x

\* overlays.rs:21-27: the curve through (0, 0) (50, 2) (100, 3) (200, 4)
\* (800, 10), clamped to 0..10
ponderate_i(i) ==
    LET result == IF i <= 50 THEN 40 * i
                  ELSE IF i <= 100 THEN 2000 + 20 * (i - 50)
                  ELSE IF i <= 200 THEN 3000 + 10 * (i - 100)
                  ELSE 4000 + 10 * (i - 200)
    IN  Clamp(result, 0, 10000)

\* overlays.rs:30-36
ponderate_didt(didt) == IF didt < 10 THEN 0 ELSE (didt * 1000) \div 10

ScoreVector(lat, lon, score) == [lat |-> lat, lon |-> lon, score |-> score]

\* overlays.rs:44-52
into_scores(pvs) ==
    [n \in DOMAIN pvs |-> ScoreVector(pvs[n].lat, pvs[n].lon, ponderate_i(Abs(pvs[n].i)))]
\* overlays.rs:54-62
into_derivative_scores(pvs) ==
    [n \in DOMAIN pvs |->
        ScoreVector(pvs[n].lat, pvs[n].lon, ponderate_didt(Abs(pvs[n].i)))]

\* overlays.rs:66-78, in km at 111 km per degree, the root of the sum of
\* squares replaced by the sum of the absolute differences
approx_distance(lat1, lon1, lat2, lon2) == 111 * (Abs(lon2 - lon1) + Abs(lat1 - lat2))

\* overlays.rs:87-99, in percent, each cubic replaced by the line between its
\* values at the ends of its range
auroral_zone_weight(d) ==
    IF 0 <= d /\ d <= 2200 THEN (100 * d) \div 2200
    ELSE IF 2200 <= d /\ d <= 2700 THEN 100
    ELSE IF 2700 <= d /\ d <= 3300 THEN 100 - (50 * (d - 2700)) \div 600
    ELSE IF 3300 <= d /\ d <= 5000 THEN 50 - (50 * (d - 3300)) \div 1700
    ELSE 30

\* overlays.rs:102-110
ponderate_auroral_zone_score(lon, lat, score) ==
    LET geomag_n_pole == <<-73, 81>>
        d == approx_distance(lat, lon, geomag_n_pole[2], geomag_n_pole[1])
        w == auroral_zone_weight(d)
    IN  (score * w) \div 100

\* overlays.rs:129-137
ponderate_auroral_zone(svs) ==
    [n \in DOMAIN svs |->
        ScoreVector(svs[n].lat, svs[n].lon,
                    ponderate_auroral_zone_score(svs[n].lon, svs[n].lat, svs[n].score))]

\* overlays.rs:113-120: (round(clamped * 1000) << 2) | (derivative & 0b11), a u16
encode_score(score, derivative) ==
    LET clamped == Clamp(score, 0, 10000)
        scaled == clamped % 65536
        u2 == derivative % 4
    IN  ((scaled * 4) % 65536) + u2
\* overlays.rs:139-150
encode(svs) == [n \in DOMAIN svs |-> encode_score(svs[n].score, 0)]

\* overlays.rs:153-162
max_score_vectors(v1, v2) ==
    [n \in 1..Min(Len(v1), Len(v2)) |->
        ScoreVector(v1[n].lat, v1[n].lon,
                    IF v1[n].score > v2[n].score THEN v1[n].score ELSE v2[n].score)]

(***************************************************************************)
(* lib.rs: the canister.  A panic or ic_cdk::trap in a call rolls the      *)
(* canister state back: the call's outcome is "trap" and nothing changes.  *)
(***************************************************************************)
Principals == {"anonymous", "alice", "bob"}

\* geographical_grid(45.0..85.0, 50, -170.0..35.0, 50), scaled down to
\* MaxPoles poles, and the 110e3 it is constructed with (lib.rs:144)
CanisterPoleGrid == [s \in 1..MaxPoles |-> GeographicalPoint(s, 2)]
CanisterPoleAltitude == 1
\* geographical_grid(45.0..85.0, 37, -180.0..179.0, 130), scaled down to
\* MaxLocs points, and the altitude 110e3 of lib.rs:166
CanisterPredGrid == [n \in 1..MaxLocs |-> GeographicalPoint(n, 1)]
CanisterPredAltitude == 1
\* secs.fit(&obs_zero_k, 0.0, 0.1) (lib.rs:154)
CanisterObsAltitude == 0
CanisterEpsilon == [num |-> 1, den |-> 10]

\* #[derive(Default)] of SECS
SECS_default == SECS_new(<<>>, 0)

\* SECS::load (lib.rs:60-62)
SECS_load == IF IsSome(STORED_SECS) THEN Unwrap(STORED_SECS) ELSE SECS_default

\* SECS::calc_t_pred: fills the prediction cache for the given grid
calc_t_pred(self, pred_locs, pred_altitude) == CachePred(self, pred_locs, pred_altitude)

\* SECS::predict(): the prediction at the cached prediction locations
predict_cached(self) == PredictStep(self, self.pred_locs_cache, CanisterPredAltitude)

\* membership of the authorized set alone, without the anonymous check
IsAuthorizedBySetOnly(caller) == caller \in AUTHORIZED_USERS

\* is_authorized (lib.rs:79-87)
is_authorized(caller) ==
    IF caller = "anonymous" THEN FALSE ELSE caller \in AUTHORIZED_USERS

Trap(op, caller) ==
    /\ reply' = [NoReply EXCEPT !.op = op, !.caller = caller, !.outcome = "trap"]
    /\ UNCHANGED <<STORED_SECS, PREDICTIONS, AUTHORIZED_USERS>>

Reply(op, caller) == [NoReply EXCEPT !.op = op, !.caller = caller]

\* lib.rs:97-103
a_add_authorized_user ==
    \E caller \in Principals, user_principal \in Principals :
        /\ IF ~is_authorized(caller) THEN Trap("a_add_authorized_user", caller)
           ELSE /\ AUTHORIZED_USERS' = AUTHORIZED_USERS \cup {user_principal}
                /\ reply' = Reply("a_add_authorized_user", caller)
                /\ UNCHANGED <<STORED_SECS, PREDICTIONS>>
        /\ UNCHANGED objectVars

\* lib.rs:105-111
a_remove_authorized_user ==
    \E caller \in Principals, user_principal \in Principals :
        /\ IF ~is_authorized(caller) THEN Trap("a_remove_authorized_user", caller)
           ELSE /\ AUTHORIZED_USERS' = AUTHORIZED_USERS \ {user_principal}
                /\ reply' = Reply("a_remove_authorized_user", caller)
                /\ UNCHANGED <<STORED_SECS, PREDICTIONS>>
        /\ UNCHANGED objectVars

\* lib.rs:113-117
a_list_authorized_users ==
    \E caller \in Principals :
        /\ IF ~is_authorized(caller) THEN Trap("a_list_authorized_users", caller)
           ELSE /\ reply' = [Reply("a_list_authorized_users", caller) EXCEPT
                               !.users = AUTHORIZED_USERS]
                /\ UNCHANGED <<STORED_SECS, PREDICTIONS, AUTHORIZED_USERS>>
        /\ UNCHANGED objectVars

\* lib.rs:120-130
a_initialize_authorized_user ==
    \E caller \in Principals, user_principal \in Principals :
        /\ IF AUTHORIZED_USERS = {}
           THEN /\ AUTHORIZED_USERS' = {user_principal}
                /\ reply' = Reply("a_initialize_authorized_user", caller)
                /\ UNCHANGED <<STORED_SECS, PREDICTIONS>>
           ELSE Trap("a_initialize_authorized_user", caller)
        /\ UNCHANGED objectVars

\* the flag m_fit_obs would return if it reported the recomputation of the
\* observation transfer matrix
NeedsPredFitIsRecomputed(fitted, recomputed) == recomputed

\* lib.rs:155, needs_pred_fit
NeedsPredFit(fitted, recomputed) == ~IsSome(fitted.t_pred_cache)

\* lib.rs:147-153
ObsZeroK(obs) == [n \in DOMAIN obs |-> [obs[n] EXCEPT !.k = 0]]

\* lib.rs:136-158
m_fit_obs ==
    \E caller \in Principals, obs \in ObsLists :
        /\ IF ~is_authorized(caller) THEN Trap("m_fit_obs", caller)
           ELSE LET model == IF IsSome(STORED_SECS) THEN SECS_load
                             ELSE SECS_new(CanisterPoleGrid, CanisterPoleAltitude)
                    r == FitStep(model, ObsZeroK(obs), CanisterObsAltitude, CanisterEpsilon)
                IN  IF r.outcome = "panic" THEN Trap("m_fit_obs", caller)
                    ELSE /\ STORED_SECS' = Some(r.secs)
                         /\ reply' = [Reply("m_fit_obs", caller) EXCEPT
                                        !.flag = NeedsPredFit(r.secs, r.recomputed),
                                        !.recomputed = r.recomputed]
                         /\ UNCHANGED <<PREDICTIONS, AUTHORIZED_USERS>>
        /\ UNCHANGED objectVars

\* lib.rs:160-168
m_fit_pred ==
    \E caller \in Principals :
        /\ IF ~is_authorized(caller) THEN Trap("m_fit_pred", caller)
           ELSE /\ STORED_SECS' =
                      Some(calc_t_pred(SECS_load, CanisterPredGrid, CanisterPredAltitude))
                /\ reply' = Reply("m_fit_pred", caller)
                /\ UNCHANGED <<PREDICTIONS, AUTHORIZED_USERS>>
        /\ UNCHANGED objectVars

\* a store that writes a fresh record with only the slot of this call filled
PredictionStorage_storeFresh(data, is_derivative) ==
    IF is_derivative
    THEN [abs |-> None, drv |-> Some(data)]
    ELSE [drv |-> None, abs |-> Some(data)]

\* PredictionStorage::store (lib.rs:40-56)
PredictionStorage_store(data, is_derivative) ==
    LET buf == PREDICTIONS
    IN  IF is_derivative
        THEN [abs |-> buf.abs, drv |-> Some(data)]
        ELSE [drv |-> buf.drv, abs |-> Some(data)]

\* lib.rs:170-185
m_predict ==
    \E caller \in Principals, is_derivative \in BOOLEAN :
        /\ IF ~is_authorized(caller) THEN Trap("m_predict", caller)
           ELSE LET r == predict_cached(SECS_load)
                    raw_prediction == r.value
                    prediction == IF is_derivative
                                  THEN into_derivative_scores(raw_prediction)
                                  ELSE into_scores(raw_prediction)
                IN  IF r.outcome = "panic" THEN Trap("m_predict", caller)
                    ELSE /\ PREDICTIONS' =
                               PredictionStorage_store(ponderate_auroral_zone(prediction),
                                                       is_derivative)
                         /\ reply' = [Reply("m_predict", caller) EXCEPT
                                        !.flag = is_derivative,
                                        !.predictions = raw_prediction]
                         /\ UNCHANGED <<STORED_SECS, AUTHORIZED_USERS>>
        /\ UNCHANGED objectVars

\* unwrap_or_default of an Option<Vec<_>>
UnwrapOrDefault(o) == IF IsSome(o) THEN Unwrap(o) ELSE <<>>

\* lib.rs:187-200
m_scores ==
    \E caller \in Principals :
        /\ IF ~is_authorized(caller) THEN Trap("m_scores", caller)
           ELSE LET predictions == PREDICTIONS
                    codes == IF ~IsSome(predictions.drv)
                             THEN encode(UnwrapOrDefault(predictions.abs))
                             ELSE encode(max_score_vectors(UnwrapOrDefault(predictions.abs),
                                                           Unwrap(predictions.drv)))
                IN  /\ reply' = [Reply("m_scores", caller) EXCEPT !.scores = codes]
                    /\ UNCHANGED <<STORED_SECS, PREDICTIONS, AUTHORIZED_USERS>>
        /\ UNCHANGED objectVars

(***************************************************************************)
(* SpecIC: the canister after installation, any sequence of calls.         *)
(***************************************************************************)
InitIC ==
    /\ secs = SECS_default
    /\ ret = NoCall
    /\ CanisterInit

NextIC ==
    \/ a_add_authorized_user
    \/ a_remove_authorized_user
    \/ a_list_authorized_users
    \/ a_initialize_authorized_user
    \/ m_fit_obs
    \/ m_fit_pred
    \/ m_predict
    \/ m_scores

SpecIC == InitIC /\ [][NextIC]_vars

(***************************************************************************)
(* geo.rs and grid.rs: linspace and geographical_grid.  An f32 is an exact *)
(* fraction [n, d] in lowest terms with d > 0; rounding is not modelled.   *)
(***************************************************************************)
MaxCount == 4       \* largest number of samples asked of linspace
MaxSteps == 3       \* largest number of steps per axis asked of geographical_grid

RECURSIVE Gcd(_, _)
Gcd(a, b) == IF b = 0 THEN a ELSE Gcd(b, a % b)

Frac(n, d) ==
    LET g == Gcd(Abs(n), Abs(d))
        sign == IF d < 0 THEN -1 ELSE 1
    IN  [n |-> (sign * n) \div g, d |-> (sign * d) \div g]
FromInt(i) == [n |-> i, d |-> 1]
FAdd(x, y) == Frac(x.n * y.d + y.n * x.d, x.d * y.d)
FSub(x, y) == Frac(x.n * y.d - y.n * x.d, x.d * y.d)
FMul(x, y) == Frac(x.n * y.n, x.d * y.d)
FDiv(x, y) == Frac(x.n * y.d, x.d * y.n)
FLe(x, y) == x.n * y.d <= y.n * x.d

\* the ends of the ranges passed in, and the ranges (std::ops::Range<f32>)
RangeEnds == {FromInt(i) : i \in -1..2}
Ranges == {[start |-> a, end |-> b] : a, b \in RangeEnds}

\* geo.rs:47, the range check: end <= start
InvalidRange(start, end) == FLe(end, start)

\* geo.rs:60, step
LinspaceStepExclusive(start, end, num) == FDiv(FSub(end, start), FromInt(num))
LinspaceStep(start, end, num) == FDiv(FSub(end, start), FromInt(num - 1))

\* geo.rs:44-66
linspace(start, end, num) ==
    IF InvalidRange(start, end) THEN [outcome |-> "panic", value |-> <<>>]
    ELSE IF num = 0 THEN [outcome |-> "ok", value |-> <<>>]
    ELSE IF num = 1 THEN [outcome |-> "ok", value |-> <<start>>]
    ELSE LET step == LinspaceStep(start, end, num)
         IN  [outcome |-> "ok",
              value |-> [i \in 1..num |-> FAdd(start, FMul(FromInt(i - 1), step))]]

\* geo.rs:81-98: points {lon, lat}
geographical_grid(lat_range, lat_steps, lon_range, lon_steps) ==
    LET latitudes == linspace(lat_range.start, lat_range.end, lat_steps)
        longitudes == linspace(lon_range.start, lon_range.end, lon_steps)
        nlon == Len(longitudes.value)
    IN  IF latitudes.outcome = "panic" \/ longitudes.outcome = "panic"
        THEN [outcome |-> "panic", value |-> <<>>]
        ELSE [outcome |-> "ok",
              value |-> [n \in 1..(Len(latitudes.value) * nlon) |->
                           GeographicalPoint(latitudes.value[((n - 1) \div nlon) + 1],
                                             longitudes.value[((n - 1) % nlon) + 1])]]

\* grid.rs:33, the range check: end <= start
GridInvalidRangeStrict(start, end) == ~FLe(start, end)
GridInvalidRange(start, end) == FLe(end, start)

\* grid.rs:30-52
grid_linspace(start, end, num) ==
    IF GridInvalidRange(start, end) THEN [outcome |-> "panic", value |-> <<>>]
    ELSE IF num = 0 THEN [outcome |-> "ok", value |-> <<>>]
    ELSE IF num = 1 THEN [outcome |-> "ok", value |-> <<start>>]
    ELSE LET step == FDiv(FSub(end, start), FromInt(num - 1))
         IN  [outcome |-> "ok",
              value |-> [i \in 1..num |-> FAdd(start, FMul(FromInt(i - 1), step))]]

\* grid.rs:3-17
GridPoint(latitude, longitude, altitude) ==
    [longitude |-> longitude, latitude |-> latitude, altitude |-> altitude]

\* the grid with the longitude loop outside the latitude loop
GridPointsLonOuter(latitudes, longitudes, altitude) ==
    [n \in 1..(Len(latitudes) * Len(longitudes)) |->
        GridPoint(latitudes[((n - 1) % Len(latitudes)) + 1],
                  longitudes[((n - 1) \div Len(latitudes)) + 1], altitude)]

\* grid.rs:78-86: for lat in latitudes { for &lon in &longitudes { push } }
GridPoints(latitudes, longitudes, altitude) ==
    [n \in 1..(Len(latitudes) * Len(longitudes)) |->
        GridPoint(latitudes[((n - 1) \div Len(longitudes)) + 1],
                  longitudes[((n - 1) % Len(longitudes)) + 1], altitude)]

\* grid.rs:67-89
grid_geographical_grid(lat_range, lat_steps, lon_range, lon_steps, altitude) ==
    LET latitudes == grid_linspace(lat_range.start, lat_range.end, lat_steps)
        longitudes == grid_linspace(lon_range.start, lon_range.end, lon_steps)
    IN  IF latitudes.outcome = "panic" \/ longitudes.outcome = "panic"
        THEN [outcome |-> "panic", value |-> <<>>]
        ELSE [outcome |-> "ok",
              value |-> GridPoints(latitudes.value, longitudes.value, altitude)]

(***************************************************************************)
(* The kernel of one (observation, pole) pair, as t_df.rs, matrix.rs and   *)
(* secs.rs each compute it, in IEEE arithmetic: a float is a finite        *)
(* fraction, an infinity or NaN.  The sign of a zero is not kept.  Angles  *)
(* are 0 or 90 degrees, whose sine and cosine are exact; MU0 / (4 pi) is   *)
(* the unit of the result.                                                 *)
(***************************************************************************)
XFin(q) == [k |-> "fin", q |-> q]
XInf(sign) == [k |-> "inf", q |-> FromInt(sign)]
XNaN == [k |-> "nan", q |-> FromInt(0)]
XInt(i) == XFin(FromInt(i))
Sign(n) == IF n > 0 THEN 1 ELSE IF n < 0 THEN -1 ELSE 0

XNeg(x) == IF x.k = "nan" THEN XNaN ELSE [k |-> x.k, q |-> Frac(-x.q.n, x.q.d)]
XAdd(x, y) ==
    IF x.k = "nan" \/ y.k = "nan" THEN XNaN
    ELSE IF x.k = "inf" /\ y.k = "inf" THEN (IF x.q = y.q THEN x ELSE XNaN)
    ELSE IF x.k = "inf" THEN x
    ELSE IF y.k = "inf" THEN y
    ELSE XFin(FAdd(x.q, y.q))
XSub(x, y) == XAdd(x, XNeg(y))
XMul(x, y) ==
    IF x.k = "nan" \/ y.k = "nan" THEN XNaN
    ELSE IF x.k = "inf" \/ y.k = "inf"
         THEN (IF x.q.n = 0 \/ y.q.n = 0 THEN XNaN
               ELSE XInf(Sign(x.q.n) * Sign(y.q.n)))
    ELSE XFin(FMul(x.q, y.q))
XDiv(x, y) ==
    IF x.k = "nan" \/ y.k = "nan" THEN XNaN
    ELSE IF x.k = "inf" THEN (IF y.k = "inf" THEN XNaN
                              ELSE XInf(x.q.n * (IF y.q.n < 0 THEN -1 ELSE 1)))
    ELSE IF y.k = "inf" THEN XInt(0)
    ELSE IF y.q.n = 0 THEN (IF x.q.n = 0 THEN XNaN ELSE XInf(Sign(x.q.n)))
    ELSE XFin(FDiv(x.q, y.q))
\* x > y and x == y of two floats: false when either is NaN
XGt(x, y) ==
    IF x.k = "nan" \/ y.k = "nan" THEN FALSE
    ELSE IF x.k = "inf" THEN x.q.n > 0 /\ ~(y.k = "inf" /\ y.q.n > 0)
    ELSE IF y.k = "inf" THEN y.q.n < 0
    ELSE ~FLe(x.q, y.q)
XEq(x, y) == x.k /= "nan" /\ y.k /= "nan" /\ x = y
XAbs(x) == IF x.k = "nan" THEN XNaN ELSE [k |-> x.k, q |-> Frac(Abs(x.q.n), x.q.d)]

RECURSIVE ISqrtFrom(_, _)
\* the integer square root of n by Newton's iteration from r >= sqrt(n)
ISqrtFrom(n, r) ==
    LET next == (r + n \div r) \div 2
    IN  IF next >= r THEN r ELSE ISqrtFrom(n, next)
ISqrt(n) == IF n = 0 THEN 0 ELSE ISqrtFrom(n, n)

\* f64::sqrt: exact on the squares of fractions, to 1 / (10 d) otherwise
XSqrt(x) ==
    IF x.k = "nan" THEN XNaN
    ELSE IF x.q.n < 0 THEN XNaN
    ELSE IF x.k = "inf" THEN x
    ELSE XFin(Frac(ISqrt(x.q.n * x.q.d * 100), x.q.d * 10))

Angles == {0, 90}
Cos(angle) == IF angle = 0 THEN XInt(1) ELSE XInt(0)
Sin(angle) == IF angle = 0 THEN XInt(0) ELSE XInt(1)

\* 1 - 2 x cos(theta) + x^2
DenomArg(x, cos_theta) ==
    XAdd(XSub(XInt(1), XMul(XMul(XInt(2), x), cos_theta)), XMul(x, x))

\* the entries [north, east, down] of T from B_theta / sin(theta), Br and alpha
Cartesian(b_theta, br, alpha) ==
    <<XMul(XNeg(b_theta), Sin(alpha)), XMul(XNeg(b_theta), Cos(alpha)), XNeg(br)>>

\* t_df.rs:114, B_theta / sin(theta)
TdfQuotient(b_theta, sin_theta) ==
    IF XEq(sin_theta, XInt(0)) THEN XInt(0) ELSE XDiv(b_theta, sin_theta)

\* matrix.rs:79-83 and 100-104
MatrixQuotient(b_theta, sin_theta) ==
    IF ~XEq(sin_theta, XInt(0)) THEN XDiv(b_theta, sin_theta) ELSE XInt(0)

\* the two pairs of formulas of Amm & Viljanen
BranchBelow == "Eq. 9/10"
BranchAbove == "Eq. A.7/A.8"

\* t_df.rs:73-78, the ratio x, and t_df.rs:83-102, the formulas chosen
TdfX(obs_altitude, secs_altitude) ==
    LET obs_r == XInt(obs_altitude + R_EARTH)
        sec_r == XInt(secs_altitude + R_EARTH)
        over == obs_altitude > secs_altitude
    IN  IF over THEN XDiv(sec_r, obs_r) ELSE XDiv(obs_r, sec_r)
TdfBranch(obs_altitude, secs_altitude) ==
    IF obs_altitude > secs_altitude THEN BranchAbove ELSE BranchBelow

\* matrix.rs:66 and 88, the ratio x of the formulas whose result is kept, and
\* matrix.rs:72-98, those formulas
MatrixX(obs_altitude, secs_altitude) ==
    LET obs_r == XInt(R_EARTH + obs_altitude)
        sec_r == XInt(R_EARTH + secs_altitude)
    IN  IF XGt(obs_r, sec_r) THEN XDiv(sec_r, obs_r) ELSE XDiv(obs_r, sec_r)
MatrixBranch(obs_altitude, secs_altitude) ==
    IF XGt(XInt(R_EARTH + obs_altitude), XInt(R_EARTH + secs_altitude))
    THEN BranchAbove ELSE BranchBelow

\* secs.rs:188-189 and 231, the ratio x, and secs.rs:212-217 and 244-260, the
\* formulas chosen
SecsX(obs_altitude, secs_altitude) ==
    LET obs_r_i == XInt(R_EARTH + obs_altitude)
        sec_r_j == XInt(R_EARTH + secs_altitude)
    IN  IF ~XGt(sec_r_j, obs_r_i) THEN XDiv(obs_r_i, sec_r_j) ELSE XDiv(sec_r_j, obs_r_i)
SecsBranch(obs_altitude, secs_altitude) ==
    IF ~XGt(XInt(R_EARTH + secs_altitude), XInt(R_EARTH + obs_altitude))
    THEN BranchBelow ELSE BranchAbove

\* t_df.rs:73-125, one (i, j) of the arrays
TdfEntry(obs_altitude, secs_altitude, theta, alpha) ==
    LET obs_r == XInt(obs_altitude + R_EARTH)
        sec_r == XInt(secs_altitude + R_EARTH)
        sin_theta == Sin(theta)
        cos_theta == Cos(theta)
        over == obs_altitude > secs_altitude
        x == TdfX(obs_altitude, secs_altitude)
        factor == XDiv(XInt(1), XSqrt(DenomArg(x, cos_theta)))
        br == IF over
              THEN XMul(XDiv(x, obs_r), XSub(factor, XInt(1)))
              ELSE XMul(XDiv(XInt(1), obs_r), XSub(factor, XInt(1)))
        b_theta ==
            IF over
            THEN XMul(XDiv(XInt(-1), obs_r),
                      XSub(XDiv(XSub(obs_r, XMul(sec_r, cos_theta)),
                                XSqrt(XAdd(XSub(XMul(obs_r, obs_r),
                                                XMul(XMul(XMul(obs_r, XInt(2)), sec_r),
                                                     cos_theta)),
                                           XMul(sec_r, sec_r)))),
                           XInt(1)))
            ELSE XMul(XDiv(XInt(-1), obs_r),
                      XAdd(XMul(factor, XSub(x, cos_theta)), cos_theta))
        b_theta_divided == TdfQuotient(b_theta, sin_theta)
    IN  Cartesian(b_theta_divided, br, alpha)

\* matrix.rs:61-106, one (i, j) of the loops
MatrixEntry(obs_altitude, secs_altitude, theta, alpha) ==
    LET obs_r == XInt(R_EARTH + obs_altitude)
        sec_r == XInt(R_EARTH + secs_altitude)
        x == XDiv(obs_r, sec_r)
        sin_theta == Sin(theta)
        cos_theta == Cos(theta)
        factor == XDiv(XInt(1), XSqrt(DenomArg(x, cos_theta)))
        br == XMul(XDiv(XInt(1), obs_r), XSub(factor, XInt(1)))
        b_theta == XMul(XDiv(XInt(-1), obs_r),
                        XAdd(XMul(factor, XSub(x, cos_theta)), cos_theta))
        b_theta_1 == MatrixQuotient(b_theta, sin_theta)
        \* the flipped calculation, for a pole below the observation
        x_below == XDiv(sec_r, obs_r)
        br_below ==
            XMul(XDiv(x_below, obs_r),
                 XSub(XDiv(XInt(1), XSqrt(DenomArg(x_below, cos_theta))), XInt(1)))
        b_theta_below ==
            XMul(XDiv(XInt(-1), obs_r),
                 XSub(XDiv(XSub(obs_r, XMul(sec_r, cos_theta)),
                           XSqrt(XAdd(XSub(XMul(obs_r, obs_r),
                                           XMul(XMul(XMul(XInt(2), obs_r), sec_r),
                                                cos_theta)),
                                      XMul(sec_r, sec_r)))),
                      XInt(1)))
        b_theta_2 == MatrixQuotient(b_theta_below, sin_theta)
    IN  IF XGt(obs_r, sec_r)
        THEN Cartesian(b_theta_2, br_below, alpha)
        ELSE Cartesian(b_theta_1, br, alpha)

\* secs.rs:197 and 239, 1e-12, and secs.rs:219 and 263, 1e-9: the smallest
\* values taken as non-zero, in model units
DenomTolerance == XFin(Frac(1, 1000))
SinTolerance == XFin(Frac(1, 1000))
\* secs.rs:307, t_matrix *= 1e9, in model units
NanoTesla == 1000

\* secs.rs:219-224 and 263-268
SecsQuotient(btheta_num, sin_theta) ==
    IF XGt(XAbs(sin_theta), SinTolerance) THEN XDiv(btheta_num, sin_theta)
    ELSE XInt(0)

\* secs.rs:179-270 and 284-307, one (r_idx, c_idx) of the loops
SecsEntry(obs_altitude, secs_altitude, theta, alpha) ==
    LET obs_r_i == XInt(R_EARTH + obs_altitude)
        sec_r_j == XInt(R_EARTH + secs_altitude)
        cos_theta == Cos(theta)
        sin_theta == Sin(theta)
        at_or_above == ~XGt(sec_r_j, obs_r_i)
        x == SecsX(obs_altitude, secs_altitude)
        denom_arg == DenomArg(x, cos_theta)
        factor == IF XGt(denom_arg, DenomTolerance)
                  THEN XDiv(XInt(1), XSqrt(denom_arg))
                  ELSE XInt(0)
        br == IF at_or_above
              THEN XMul(XDiv(XInt(1), obs_r_i), XSub(factor, XInt(1)))
              ELSE XMul(XDiv(x, obs_r_i), XSub(factor, XInt(1)))
        denom_sqrt_a8 == IF XGt(denom_arg, DenomTolerance)
                         THEN XMul(obs_r_i, XSqrt(denom_arg))
                         ELSE XInt(0)
        btheta_num ==
            IF at_or_above
            THEN XMul(XDiv(XInt(-1), obs_r_i),
                      XAdd(XMul(factor, XSub(x, cos_theta)), cos_theta))
            ELSE IF XGt(denom_sqrt_a8, DenomTolerance)
            THEN XMul(XDiv(XInt(-1), obs_r_i),
                      XSub(XDiv(XSub(obs_r_i, XMul(sec_r_j, cos_theta)), denom_sqrt_a8),
                           XInt(1)))
            ELSE XInt(0)
        btheta == SecsQuotient(btheta_num, sin_theta)
        t == Cartesian(btheta, br, alpha)
    IN  [c \in 1..3 |-> XMul(t[c], XInt(NanoTesla))]

(***************************************************************************)
(* secs.rs: Secs::fit, Secs::predict and secs_interpolate, by the shapes   *)
(* of their matrices.  nalgebra panics on a product whose inner dimensions *)
(* differ; SVD::new gives u of n x k and v_t of k x m with k = min(n, m).   *)
(***************************************************************************)
MaxObs == 3

Shape(nrows, ncols) == [ok |-> TRUE, nrows |-> nrows, ncols |-> ncols]
ShapePanic == [ok |-> FALSE, nrows |-> 0, ncols |-> 0]

\* a * b of two DMatrix
ShapeMul(a, b) ==
    IF ~a.ok \/ ~b.ok \/ a.ncols /= b.nrows THEN ShapePanic
    ELSE Shape(a.nrows, b.ncols)

ShapeTranspose(a) == IF a.ok THEN Shape(a.ncols, a.nrows) ELSE ShapePanic

\* secs.rs:284, t_matrix of n_obs * 3 rows and n_sec columns
SecsTdfShape(n_obs, n_sec) == Shape(n_obs * 3, n_sec)

\* secs.rs:337, the shapes of the factors of SVD::new(t_matrix, true, true)
SecsSvdShapes(t_matrix) ==
    LET k == Min(t_matrix.nrows, t_matrix.ncols)
    IN  [u |-> Shape(t_matrix.nrows, k), singular_values |-> k,
         v_t |-> Shape(k, t_matrix.ncols)]

\* secs.rs:313-372, Secs::fit: the shape of sec_amps, or the panic
Secs_fit(n_obs, obs_b_len, nsec) ==
    IF obs_b_len /= n_obs * 3 THEN ShapePanic
    ELSE IF nsec = 0 THEN ShapePanic
    ELSE LET t_matrix == SecsTdfShape(n_obs, nsec)
             dec == SecsSvdShapes(t_matrix)
             sigma_inv_diag == Shape(t_matrix.ncols, t_matrix.nrows)
             v == ShapeTranspose(dec.v_t)
             obs_b == Shape(obs_b_len, 1)
         IN  IF t_matrix.nrows * t_matrix.ncols = 0 THEN ShapePanic
             ELSE ShapeMul(ShapeMul(ShapeMul(v, sigma_inv_diag),
                                    ShapeTranspose(dec.u)), obs_b)

\* secs.rs:375-398, Secs::predict: the shape of the result
Secs_predict(sec_amps, n_pred, nsec) ==
    IF n_pred = 0 THEN Shape(0, 3)
    ELSE LET b_pred_flat == ShapeMul(SecsTdfShape(n_pred, nsec), sec_amps)
         IN  IF ~b_pred_flat.ok THEN ShapePanic
             ELSE IF b_pred_flat.nrows * b_pred_flat.ncols /= n_pred * 3
                  THEN ShapePanic
                  ELSE Shape(n_pred, 3)

\* secs.rs:423-498: the outcome and the points of the predictions returned
secs_interpolate(n_obs, sec_lat_range, sec_lat_steps, sec_lon_range, sec_lon_steps, pred_lat_range, pred_lat_steps, pred_lon_range, pred_lon_steps) ==
    LET Panicked == [outcome |-> "panic", value |-> <<>>]
        sec_grid == grid_geographical_grid(sec_lat_range, sec_lat_steps,
                                           sec_lon_range, sec_lon_steps, FromInt(1))
        nsec == Len(sec_grid.value)
        sec_amps == Secs_fit(n_obs, n_obs * 3, nsec)
        pred_grid == grid_geographical_grid(pred_lat_range, pred_lat_steps,
                                            pred_lon_range, pred_lon_steps, FromInt(0))
        n_pred == Len(pred_grid.value)
        b_pred_matrix == Secs_predict(sec_amps, n_pred, nsec)
    IN  IF n_obs = 0 THEN [outcome |-> "ok", value |-> <<>>]
        ELSE IF sec_grid.outcome = "panic" THEN Panicked
        ELSE IF nsec = 0 THEN Panicked
        ELSE IF ~sec_amps.ok THEN Panicked
        ELSE IF pred_grid.outcome = "panic" THEN Panicked
        ELSE IF ~b_pred_matrix.ok THEN Panicked
        ELSE [outcome |-> "ok",
              value |-> [i \in 1..n_pred |->
                           [lon |-> pred_grid.value[i].longitude,
                            lat |-> pred_grid.value[i].latitude]]]

\* secs.rs:284-304: t_matrix, the zeros of n_obs * 3 rows and n_sec columns
\* after the assignments t_matrix[(i * 3 + c, j)] = component c of (i, j),
\* indices from 0; t holds the components bn, be, bd of every pair
SecsTMatrix(n_obs, n_sec, t) ==
    LET assigned == {[row |-> i * 3 + c, col |-> j, val |-> t.a[i + 1][c + 1][j + 1]] :
                        i \in 0..(n_obs - 1), c \in 0..2, j \in 0..(n_sec - 1)}
        At(r, j) == LET hits == {e \in assigned : e.row = r /\ e.col = j}
                    IN  IF hits = {} THEN 0 ELSE (CHOOSE e \in hits : TRUE).val
    IN  [nrows |-> n_obs * 3, ncols |-> n_sec,
         a |-> [r \in 0..(n_obs * 3 - 1) |-> [j \in 0..(n_sec - 1) |-> At(r, j)]]]

RECURSIVE SecsObsBFlat(_)
\* secs.rs:453-464: obs_b_flat_vec after the pushes of i, j, k of every
\* observation in turn
SecsObsBFlat(observations) ==
    IF observations = <<>> THEN <<>>
    ELSE <<Head(observations).i, Head(observations).j, Head(observations).k>>
         \o SecsObsBFlat(Tail(observations))

\* most prediction locations of one Secs::predict
MaxPred == 3

\* nalgebra's DMatrix::from_vec(nrows, ncols, data): the data fill the matrix
\* column by column; indices from 0
DMatrix_from_vec(nrows, ncols, data) ==
    [r \in 0..(nrows - 1) |-> [c \in 0..(ncols - 1) |-> data[c * nrows + r]]]

\* secs.rs:393-395, b_pred_reshaped of the flat product b_pred_flat
SecsPredReshaped(n_pred, b_pred_flat) == DMatrix_from_vec(n_pred, 3, b_pred_flat)

\* secs.rs:484-495, the i, j, k of the predictions, indices from 0
SecsPredictions(n_pred, b_pred_matrix) ==
    [i \in 0..(n_pred - 1) |->
        [i |-> b_pred_matrix[i][0], j |-> b_pred_matrix[i][1], k |-> b_pred_matrix[i][2]]]

(***************************************************************************)
(* SpecFn: one call of a free function on inputs of its own.  ret holds    *)
(* the call: its name, its arguments and what it returned.                 *)
(***************************************************************************)
InitFn ==
    /\ secs = SECS_default
    /\ ret = NoCall
    /\ CanisterInit

CallLinspace ==
    \E r \in Ranges, num \in 0..MaxCount :
        LET res == linspace(r.start, r.end, num)
        IN  /\ ret.op = "new"
            /\ ret' = [op |-> "linspace", start |-> r.start, end |-> r.end, num |-> num,
                       outcome |-> res.outcome, value |-> res.value]
            /\ UNCHANGED <<secs, canisterVars>>

CallGridLinspace ==
    \E r \in Ranges, num \in 0..MaxCount :
        LET res == grid_linspace(r.start, r.end, num)
        IN  /\ ret.op = "new"
            /\ ret' = [op |-> "grid_linspace", start |-> r.start, end |-> r.end,
                       num |-> num, outcome |-> res.outcome, value |-> res.value]
            /\ UNCHANGED <<secs, canisterVars>>

CallGeographicalGrid ==
    \E lat_range \in Ranges, lon_range \in Ranges, lat_steps, lon_steps \in 0..MaxSteps :
        LET res == geographical_grid(lat_range, lat_steps, lon_range, lon_steps)
        IN  /\ ret.op = "new"
            /\ ret' = [op |-> "geographical_grid", lat_range |-> lat_range,
                       lat_steps |-> lat_steps, lon_range |-> lon_range,
                       lon_steps |-> lon_steps, outcome |-> res.outcome,
                       value |-> res.value]
            /\ UNCHANGED <<secs, canisterVars>>

CallGridGeographicalGrid ==
    \E lat_range \in Ranges, lon_range \in Ranges, lat_steps, lon_steps \in 0..MaxSteps,
       altitude \in Altitudes :
        LET res == grid_geographical_grid(lat_range, lat_steps, lon_range, lon_steps,
                                          altitude)
        IN  /\ ret.op = "new"
            /\ ret' = [op |-> "grid_geographical_grid", lat_range |-> lat_range,
                       lat_steps |-> lat_steps, lon_range |-> lon_range,
                       lon_steps |-> lon_steps, altitude |-> altitude,
                       outcome |-> res.outcome, value |-> res.value]
            /\ UNCHANGED <<secs, canisterVars>>

\* the transfer-matrix entries of one observation and one pole, each at an
\* altitude of its own, theta apart, the pole at bearing alpha
CallTdfEntry ==
    \E obs_altitude \in Altitudes, secs_altitude \in Altitudes, theta, alpha \in Angles :
        /\ ret.op = "new"
        /\ ret' = [op |-> "t_df", obs_altitude |-> obs_altitude,
                   secs_altitude |-> secs_altitude, theta |-> theta, alpha |-> alpha,
                   x |-> TdfX(obs_altitude, secs_altitude),
                   branch |-> TdfBranch(obs_altitude, secs_altitude),
                   value |-> TdfEntry(obs_altitude, secs_altitude, theta, alpha)]
        /\ UNCHANGED <<secs, canisterVars>>

CallMatrixEntry ==
    \E obs_altitude \in Altitudes, secs_altitude \in Altitudes, theta, alpha \in Angles :
        /\ ret.op = "new"
        /\ ret' = [op |-> "matrix::t_df", obs_altitude |-> obs_altitude,
                   secs_altitude |-> secs_altitude, theta |-> theta, alpha |-> alpha,
                   x |-> MatrixX(obs_altitude, secs_altitude),
                   branch |-> MatrixBranch(obs_altitude, secs_altitude),
                   value |-> MatrixEntry(obs_altitude, secs_altitude, theta, alpha)]
        /\ UNCHANGED <<secs, canisterVars>>

CallSecsEntry ==
    \E obs_altitude \in Altitudes, secs_altitude \in Altitudes, theta, alpha \in Angles :
        /\ ret.op = "new"
        /\ ret' = [op |-> "Secs::t_df", obs_altitude |-> obs_altitude,
                   secs_altitude |-> secs_altitude, theta |-> theta, alpha |-> alpha,
                   x |-> SecsX(obs_altitude, secs_altitude),
                   branch |-> SecsBranch(obs_altitude, secs_altitude),
                   value |-> SecsEntry(obs_altitude, secs_altitude, theta, alpha)]
        /\ UNCHANGED <<secs, canisterVars>>

\* the matrices handed to the decomposition: 2 x 2, entries 0, 1 or 3
SvdMatrices ==
    {Mat(2, 2, LAMBDA r, c : e[2 * (r - 1) + c]) : e \in [1..4 -> {0, 1, 3}]}

\* epsilon as a fraction: 0, 0.05, 0.5, 0.9 and 2
SvdEpsilons ==
    {[num |-> 0, den |-> 1], [num |-> 1, den |-> 20], [num |-> 1, den |-> 2],
     [num |-> 9, den |-> 10], [num |-> 2, den |-> 1]}

\* svd.rs:22-61 on a matrix, and model.rs:100 on its result with the
\* observations 3, 4, ...
CallSvd ==
    \E t_obs_flat \in SvdMatrices, epsilon \in SvdEpsilons :
        LET vwu == svd(t_obs_flat, epsilon)
            obs_b == Mat(1, t_obs_flat.nrows, LAMBDA r, c : c + 2)
        IN  /\ ret.op = "new"
            /\ ret' = [op |-> "svd", t_obs_flat |-> t_obs_flat, epsilon |-> epsilon,
                       outcome |-> IF SvdPanics(t_obs_flat) THEN "panic" ELSE "ok",
                       singular_values |-> SVD_new(t_obs_flat).singular_values,
                       valid_indices |-> SvdValidIndices(t_obs_flat, epsilon),
                       w_diag |-> SvdWDiag(t_obs_flat, epsilon),
                       value |-> vwu,
                       sec_amps |-> MatDot(obs_b, Transpose(vwu))]
            /\ UNCHANGED <<secs, canisterVars>>

\* secs.rs:337-345 on a matrix
CallSecsSInv ==
    \E t_matrix \in SvdMatrices, epsilon \in SvdEpsilons :
        LET singular_values == SVD_new(t_matrix).singular_values
        IN  /\ ret.op = "new"
            /\ ret' = [op |-> "Secs::fit s_inv", t_matrix |-> t_matrix,
                       epsilon |-> epsilon, singular_values |-> singular_values,
                       s_inv |-> SecsSInv(singular_values, epsilon)]
            /\ UNCHANGED <<secs, canisterVars>>

\* the ranges of the two grids of secs_interpolate: 0..1 and the empty 1..1
InterpolateRanges ==
    {[start |-> FromInt(0), end |-> FromInt(1)],
     [start |-> FromInt(1), end |-> FromInt(1)]}

\* secs.rs:423-498 on n_obs observations and the steps of the two grids
CallSecsInterpolate ==
    \E n_obs \in 0..MaxObs, sec_range \in InterpolateRanges,
       sec_lat_steps, sec_lon_steps, pred_lat_steps, pred_lon_steps \in 0..MaxSteps :
        LET unit == [start |-> FromInt(0), end |-> FromInt(1)]
            res == secs_interpolate(n_obs, sec_range, sec_lat_steps, unit, sec_lon_steps,
                                    unit, pred_lat_steps, unit, pred_lon_steps)
        IN  /\ ret.op = "new"
            /\ ret' = [op |-> "secs_interpolate", n_obs |-> n_obs,
                       sec_lat_range |-> sec_range,
                       sec_lat_steps |-> sec_lat_steps, sec_lon_steps |-> sec_lon_steps,
                       pred_lat_steps |-> pred_lat_steps,
                       pred_lon_steps |-> pred_lon_steps,
                       outcome |-> res.outcome, predictions |-> res.value]
            /\ UNCHANGED <<secs, canisterVars>>

\* the values of sin(theta) handed to the quotient: 0, values of either sign
\* at and below the tolerance of secs.rs, and values well above it
QuotientSines ==
    {XInt(0), XFin(Frac(1, 2000)), XFin(Frac(-1, 2000)), XFin(Frac(1, 1000)),
     XFin(Frac(1, 2)), XFin(Frac(-1, 2)), XInt(1)}

\* the values of B_theta handed to the quotient
QuotientNumerators == {XInt(-3), XInt(0), XFin(Frac(1, 7)), XInt(2)}

\* B_theta / sin(theta) as t_df.rs:114, matrix.rs:79-83 and secs.rs:219-224
\* each compute it
CallQuotient ==
    \E b_theta \in QuotientNumerators, sin_theta \in QuotientSines :
        /\ ret.op = "new"
        /\ ret' = [op |-> "quotient", b_theta |-> b_theta, sin_theta |-> sin_theta,
                   t_df |-> TdfQuotient(b_theta, sin_theta),
                   matrix |-> MatrixQuotient(b_theta, sin_theta),
                   secs |-> SecsQuotient(b_theta, sin_theta)]
        /\ UNCHANGED <<secs, canisterVars>>

\* the flattening of fit, for a list of observations and a grid of at least
\* one pole: model.rs:69-94 (obs_b, into_shape) and secs.rs:284-304, 450-464
CallFlatten ==
    \E obs \in ObsLists, sec_locs \in {g \in PoleGrids : Len(g) >= 1},
       obs_altitude \in Altitudes :
        LET t == t_df(ObsLocs(obs), obs_altitude, sec_locs, 1)
            n == Len(sec_locs)
        IN  /\ ret.op = "new"
            /\ ret' = [op |-> "flatten", obs |-> obs, sec_locs |-> sec_locs, t |-> t,
                       t_obs_flat |-> IntoShape2(t, ArrayLen(t) \div n, n),
                       obs_b |-> ObsB(obs),
                       t_matrix |-> SecsTMatrix(Len(obs), n, t),
                       obs_b_flat |-> SecsObsBFlat(obs)]
            /\ UNCHANGED <<secs, canisterVars>>

\* the flat product T_pred * amplitudes of n_pred locations, entry 3 p + c
\* (component c of location p) being 10 (p + 1) + c or its negative
FlatProducts(n_pred) ==
    {[n \in 0..(3 * n_pred - 1) |-> sign * (10 * ((n \div 3) + 1) + (n % 3))] :
        sign \in {-1, 1}}

\* secs.rs:386-398 and 483-495 on a flat product
CallSecsPredictReshape ==
    \E n_pred \in 0..MaxPred :
        \E b_pred_flat \in FlatProducts(n_pred) :
            /\ ret.op = "new"
            /\ ret' = [op |-> "Secs::predict reshape", n_pred |-> n_pred,
                       b_pred_flat |-> b_pred_flat,
                       predictions |->
                           SecsPredictions(n_pred, SecsPredReshaped(n_pred, b_pred_flat))]
            /\ UNCHANGED <<secs, canisterVars>>

NextFn ==
    \/ CallSvd
    \/ CallSecsSInv
    \/ CallTdfEntry
    \/ CallMatrixEntry
    \/ CallSecsEntry
    \/ CallLinspace
    \/ CallGridLinspace
    \/ CallGeographicalGrid
    \/ CallGridGeographicalGrid
    \/ CallSecsInterpolate
    \/ CallQuotient
    \/ CallFlatten
    \/ CallSecsPredictReshape

SpecFn == InitFn /\ [][NextFn]_vars

(***************************************************************************)
(* Claims checked under Spec.                                              *)
(***************************************************************************)
Fitted == IsSome(secs.sec_amps)

\* C1: predict on a model on which no fit has ever succeeded (the amplitudes
\* are still None) fails with the typed error ModelNotFitted: it does not
\* panic and returns no prediction records.
C1_UnfittedPredictIsTypedError ==
    (ret.op = "predict" /\ ~Fitted) =>
        (ret.outcome = "ModelNotFitted" /\ ret.value = <<>>)

\* C2: fit is all-or-nothing: when a fit call fails, the amplitudes, the cached
\* observation locations and the cached observation transfer matrix are the
\* ones from before the call.
C2_FitAllOrNothing ==
    [][(ret'.op = "fit" /\ ret'.outcome = "panic") =>
          /\ secs'.sec_amps = secs.sec_amps
          /\ secs'.obs_locs_cache = secs.obs_locs_cache
          /\ secs'.t_obs_flat_cache = secs.t_obs_flat_cache]_vars

\* a model with the same poles and amplitudes whose caches never hit: the
\* cached lists hold a point that no input list holds
CacheFree(self) ==
    [self EXCEPT !.obs_locs_cache = <<GeographicalPoint(0, 0)>>,
                 !.t_obs_flat_cache = None,
                 !.pred_locs_cache = <<GeographicalPoint(0, 0)>>,
                 !.t_pred_cache = None]

\* C3: the amplitudes left by a successful fit are the ones a cache-free model
\* computes from that call's observations, obs_altitude and epsilon.
C3_ObsCacheIsPureOptimization ==
    (ret.op = "fit" /\ ret.outcome = "ok") =>
        secs.sec_amps =
            FitStep(CacheFree(secs), ret.obs, ret.altitude, ret.epsilon).secs.sec_amps

\* C4: what predict returns is what a cache-free model returns for the same
\* pred_locations and pred_altitude.
C4_PredCacheIsPureOptimization ==
    (ret.op = "predict" /\ ret.outcome = "ok") =>
        LET ref == PredictStep(CacheFree(secs), ret.locs, ret.altitude)
        IN  ref.outcome = "ok" /\ ret.value = ref.value

\* the dot product of the amplitudes with row [n][c] of the transfer matrix
DotAllPoles(sec_amps, t, n, c) ==
    SumSeq([s \in 1..t.nsec |-> sec_amps.a[1][s] * t.a[n][c][s]])

\* C5: every component predict returns for a location is the dot product over
\* all poles of the amplitudes with that location's kernel row.
C5_PredictionIsDotOverAllPoles ==
    (ret.op = "predict" /\ ret.outcome = "ok") =>
        \A n \in DOMAIN ret.value :
            LET amps == Unwrap(secs.sec_amps)
                t == Unwrap(secs.t_pred_cache)
            IN  /\ ret.value[n].i = DotAllPoles(amps, t, n, 1)
                /\ ret.value[n].j = DotAllPoles(amps, t, n, 2)
                /\ ret.value[n].k = DotAllPoles(amps, t, n, 3)

\* C6: on a fitted model predict returns one PredictionVector per input
\* location, in input order, carrying that location's lat/lon, for every
\* input list, the empty one included.
C6_OnePredictionPerLocation ==
    (ret.op = "predict" /\ Fitted) =>
        /\ ret.outcome = "ok"
        /\ Len(ret.value) = Len(ret.locs)
        /\ \A n \in DOMAIN ret.locs :
               ret.value[n].lat = ret.locs[n].lat /\ ret.value[n].lon = ret.locs[n].lon

\* C7: on a fitted model, a predict that repeats the arguments of the predict
\* just before it returns the same result.
C7_RepeatedPredictSameResult ==
    (ret.op = "predict" /\ ret.again /\ Fitted) =>
        (ret.outcome = ret.before.outcome /\ ret.value = ret.before.value)

\* a repeated predict on a fitted model that returned predictions
C7_Witness ==
    /\ ret.op = "predict" /\ ret.again /\ Fitted
    /\ ret.outcome = "ok" /\ Len(ret.value) = 2

\* C8: predict leaves the amplitudes, the pole grid, the pole altitude and the
\* observation cache as they were, whether it returns or panics; fit leaves
\* the pole grid and the pole altitude as they were.
C8_Frame ==
    [][/\ ret'.op = "predict" =>
            /\ secs'.sec_amps = secs.sec_amps
            /\ secs'.sec_locs = secs.sec_locs
            /\ secs'.sec_locs_altitude = secs.sec_locs_altitude
            /\ secs'.obs_locs_cache = secs.obs_locs_cache
            /\ secs'.t_obs_flat_cache = secs.t_obs_flat_cache
       /\ ret'.op = "fit" =>
            /\ secs'.sec_locs = secs.sec_locs
            /\ secs'.sec_locs_altitude = secs.sec_locs_altitude]_vars

\* a predict on a fitted model that refreshed the prediction cache
C8_Witness ==
    /\ ret.op = "predict" /\ ret.recomputed /\ ret.outcome = "ok"
    /\ IsSome(secs.t_obs_flat_cache) /\ Len(secs.obs_locs_cache) > 0

\* C11: the amplitudes a successful fit leaves have one entry per pole; and a
\* predict on a model whose amplitudes have another length than its pole grid
\* fails with AmplitudeDimensionMismatch and returns nothing (stated for a
\* non-empty list of prediction locations).
C11_AmplitudeLengthIsPoleCount ==
    /\ (ret.op = "fit" /\ ret.outcome = "ok") =>
           Unwrap(secs.sec_amps).ncols = Len(secs.sec_locs)
    /\ (ret.op = "predict" /\ Fitted /\ Len(secs.sec_locs) >= 1 /\ Len(ret.locs) >= 1
           /\ Unwrap(secs.sec_amps).ncols /= Len(secs.sec_locs)) =>
           (ret.outcome = "AmplitudeDimensionMismatch" /\ ret.value = <<>>)

\* C12: a fit with no observations, or on a model with no poles, completes
\* without error and leaves amplitudes that are zero-sized or all zero, on a
\* freshly constructed model and on a fitted one alike.
C12_DegenerateFitIsOk ==
    (ret.op = "fit" /\ (Len(ret.obs) = 0 \/ Len(secs.sec_locs) = 0)) =>
        /\ ret.outcome = "ok"
        /\ Fitted
        /\ \A c \in 1..Unwrap(secs.sec_amps).ncols : Unwrap(secs.sec_amps).a[1][c] = 0

\* C28: whenever fit (predict) finds the list passed in equal to the cached
\* list and skips the recomputation, the model holds a transfer matrix
\* computed for that list and its pole grid, of shape (3 nLocations, nPoles)
\* (respectively (nLocations, 3, nPoles)); an empty list passed to a freshly
\* constructed model, whose cached list is empty too, included.
C28_SkippedRefreshHasMatrix ==
    /\ (ret.op = "fit" /\ ~ret.recomputed /\ ret.locs = secs.obs_locs_cache) =>
           /\ IsSome(secs.t_obs_flat_cache)
           /\ Unwrap(secs.t_obs_flat_cache).nrows = 3 * Len(ret.locs)
           /\ Unwrap(secs.t_obs_flat_cache).ncols = Len(secs.sec_locs)
           /\ \E h \in Altitudes :
                  Unwrap(secs.t_obs_flat_cache) =
                      IntoShape2(t_df(ret.locs, h, secs.sec_locs, secs.sec_locs_altitude),
                                 3 * Len(ret.locs), Len(secs.sec_locs))
    /\ (ret.op = "predict" /\ ~ret.recomputed) =>
           /\ IsSome(secs.t_pred_cache)
           /\ Unwrap(secs.t_pred_cache).nobs = Len(ret.locs)
           /\ Unwrap(secs.t_pred_cache).nsec = Len(secs.sec_locs)
           /\ \E h \in Altitudes :
                  Unwrap(secs.t_pred_cache) =
                      t_df(ret.locs, h, secs.sec_locs, secs.sec_locs_altitude)

(***************************************************************************)
(* Claims checked under SpecFn.                                            *)
(***************************************************************************)
\* how a call of linspace or geographical_grid ends, given how it fails on a
\* range with end <= start: it fails so exactly when a range it is given has
\* end <= start, whatever the counts, and succeeds otherwise
RangeFailure(failure) ==
    /\ ret.op \in {"linspace", "grid_linspace"} =>
           IF FLe(ret.end, ret.start) THEN ret.outcome = failure ELSE ret.outcome = "ok"
    /\ ret.op \in {"geographical_grid", "grid_geographical_grid"} =>
           IF \/ FLe(ret.lat_range.end, ret.lat_range.start)
              \/ FLe(ret.lon_range.end, ret.lon_range.start)
           THEN ret.outcome = failure
           ELSE ret.outcome = "ok"

C14_LinspaceValues ==
    (ret.op = "linspace" /\ ~FLe(ret.end, ret.start)) =>
        /\ ret.outcome = "ok"
        /\ ret.num = 0 => ret.value = <<>>
        /\ ret.num = 1 => ret.value = <<ret.start>>
        /\ ret.num >= 2 =>
            /\ Len(ret.value) = ret.num
            /\ \A i \in 0..(ret.num - 1) :
                   ret.value[i + 1] =
                       Frac(ret.start.n * (ret.num - 1) + i * (ret.end.n - ret.start.n),
                            ret.num - 1)
            /\ ret.value[1] = ret.start
            /\ ret.value[ret.num] = ret.end
            /\ \A i \in 1..(ret.num - 1) :
                   FSub(ret.value[i + 1], ret.value[i]) = FSub(ret.value[2], ret.value[1])

\* linspace(0, 1, 4), whose second element is 1/3
C14_Witness ==
    /\ ret.op = "linspace" /\ ret.outcome = "ok" /\ ret.num = 4
    /\ ret.start = FromInt(0) /\ ret.end = FromInt(1)
    /\ ret.value[2] = [n |-> 1, d |-> 3]

\* C15: geographical_grid returns lat_steps * lon_steps points, the point at
\* index a * lon_steps + b having latitude linspace(lat)[a] and longitude
\* linspace(lon)[b], and every point the altitude given.
C15_GridIsRowMajor ==
    (ret.op = "grid_geographical_grid" /\ ret.outcome = "ok") =>
        LET lats == grid_linspace(ret.lat_range.start, ret.lat_range.end,
                                  ret.lat_steps).value
            lons == grid_linspace(ret.lon_range.start, ret.lon_range.end,
                                  ret.lon_steps).value
        IN  /\ Len(ret.value) = ret.lat_steps * ret.lon_steps
            /\ \A a \in 0..(ret.lat_steps - 1), b \in 0..(ret.lon_steps - 1) :
                   LET point == ret.value[a * ret.lon_steps + b + 1]
                   IN  /\ point.latitude = lats[a + 1]
                       /\ point.longitude = lons[b + 1]
                       /\ point.altitude = ret.altitude

\* a grid of 3 latitudes by 2 longitudes
C15_Witness ==
    /\ ret.op = "grid_geographical_grid" /\ ret.outcome = "ok"
    /\ ret.lat_steps = 3 /\ ret.lon_steps = 2 /\ Len(ret.value) = 6
    /\ ret.value[2].latitude = ret.value[1].latitude
    /\ ret.value[2].longitude /= ret.value[1].longitude

\* C16: for an observation that coincides with a pole (theta = 0 and equal
\* radii) the down entry of the transfer matrix is negative infinity and the
\* north and east entries are zero, in t_df.rs, matrix.rs and secs.rs alike.
C16_SingularityIsNegativeInfinity ==
    (/\ ret.op \in {"t_df", "matrix::t_df", "Secs::t_df"}
     /\ ret.theta = 0
     /\ ret.obs_altitude = ret.secs_altitude) =>
        /\ ret.value[1] = XInt(0)
        /\ ret.value[2] = XInt(0)
        /\ ret.value[3] = XInf(-1)

\* epsilon1 <= epsilon2, as fractions
EpsLe(e1, e2) == e1.num * e2.den <= e2.num * e1.den

\* the indices of the singular values that s_inv keeps (gives a reciprocal)
Kept(s, epsilon) ==
    {i \in 1..Len(s) : ~(s[i] * epsilon.den < epsilon.num * MaxSeq(s))}

\* the elements of a sequence
Range(seq) == {seq[i] : i \in 1..Len(seq)}

\* C17: for a fixed matrix and epsilon1 <= epsilon2 the singular values kept
\* with epsilon2 are among those kept with epsilon1, in svd.rs and in
\* Secs::fit alike.
C17_TruncationIsMonotone ==
    /\ ret.op = "svd" =>
           \A e2 \in SvdEpsilons :
               EpsLe(ret.epsilon, e2) =>
                   Range(SvdValidIndices(ret.t_obs_flat, e2)) \subseteq Range(ret.valid_indices)
    /\ ret.op = "Secs::fit s_inv" =>
           \A e2 \in SvdEpsilons :
               EpsLe(ret.epsilon, e2) =>
                   LET s_inv2 == SecsSInv(ret.singular_values, e2)
                   IN  \A i \in 1..Len(s_inv2) : s_inv2[i] /= 0 => ret.s_inv[i] /= 0

\* a decomposition with epsilon = 0.05 that keeps both singular values, of
\* which epsilon = 0.5 keeps one
C17_Witness ==
    /\ ret.op = "svd" /\ ret.epsilon = [num |-> 1, den |-> 20]
    /\ Len(ret.valid_indices) = 2
    /\ Len(SvdValidIndices(ret.t_obs_flat, [num |-> 1, den |-> 2])) = 1

\* C18: in the pseudo-inverse a singular value below epsilon * max(S)
\* contributes 0 and every other one its reciprocal 1/s, no reciprocal is
\* infinite or undefined, and when every singular value is below the threshold
\* the amplitudes are all zero and no error is reported.
C18_PseudoInverseIsFinite ==
    /\ ret.op = "svd" =>
           LET s == ret.singular_values
               kept == Kept(s, ret.epsilon)
           IN  /\ Range(ret.valid_indices) = kept
               /\ \A n \in 1..Len(ret.valid_indices) :
                      /\ s[ret.valid_indices[n]] /= 0
                      /\ ret.w_diag[n] = FixedOne \div s[ret.valid_indices[n]]
               /\ kept = {} =>
                      /\ ret.outcome = "ok"
                      /\ \A c \in 1..ret.sec_amps.ncols : ret.sec_amps.a[1][c] = 0
    /\ ret.op = "Secs::fit s_inv" =>
           LET s == ret.singular_values
           IN  \A i \in 1..Len(s) :
                   IF i \in Kept(s, ret.epsilon)
                   THEN s[i] /= 0 /\ ret.s_inv[i] = FixedOne \div s[i]
                   ELSE ret.s_inv[i] = 0

\* C19: secs_interpolate on a non-empty observation list and a pole grid of
\* at least one pole returns Ok with pred_lat_steps * pred_lon_steps
\* predictions, whatever the relation between 3 * nObs and nPoles.
C19_InterpolateReturnsGrid ==
    (/\ ret.op = "secs_interpolate"
     /\ ret.n_obs >= 1
     /\ ~GridInvalidRange(ret.sec_lat_range.start, ret.sec_lat_range.end)
     /\ ret.sec_lat_steps * ret.sec_lon_steps >= 1) =>
        /\ ret.outcome = "ok"
        /\ Len(ret.predictions) = ret.pred_lat_steps * ret.pred_lon_steps

\* the three kernels
KernelCalls == {"t_df", "matrix::t_df", "Secs::t_df"}

\* min(r_obs, r_sec) / max(r_obs, r_sec)
MinOverMax(obs_altitude, secs_altitude) ==
    LET r_obs == R_EARTH + obs_altitude
        r_sec == R_EARTH + secs_altitude
    IN  IF r_obs <= r_sec THEN XFin(Frac(r_obs, r_sec)) ELSE XFin(Frac(r_sec, r_obs))

\* C22: in every kernel the ratio x is min(r_obs, r_sec) / max(r_obs, r_sec),
\* so 0 < x <= 1, for each ordering of the radii, and every kernel uses the
\* formulas t_df.rs uses for that ordering: Eq. 9/10 unless the observation
\* is above the pole, Eq. A.7/A.8 if it is.
C22_RatioIsMinOverMax ==
    ret.op \in KernelCalls =>
        /\ ret.x = MinOverMax(ret.obs_altitude, ret.secs_altitude)
        /\ XGt(ret.x, XInt(0)) /\ ~XGt(ret.x, XInt(1))
        /\ ret.branch = TdfBranch(ret.obs_altitude, ret.secs_altitude)

\* B_theta / sin(theta) with 0 in place of the quotient only for sin(theta) = 0
TrueQuotient(b_theta, sin_theta) ==
    IF sin_theta = XInt(0) THEN XInt(0)
    ELSE XFin(Frac(b_theta.q.n * sin_theta.q.d, b_theta.q.d * sin_theta.q.n))

Component(o, c) == CASE c = 0 -> o.i [] c = 1 -> o.j [] c = 2 -> o.k

\* C24: in fit, row 3 p + c of the flattened transfer matrix holds component c
\* of observation p for every pole column, entry 3 p + c of the flattened
\* measurements holds component c of the same observation, and the matrix
\* has 3 nObs rows and nPoles columns (p and c from 0), in model.rs and in
\* secs.rs alike.
C24_FlatRowsFollowObservations ==
    ret.op = "flatten" =>
        LET nObs == Len(ret.obs)
            nPoles == Len(ret.sec_locs)
        IN  /\ ret.t_obs_flat.nrows = 3 * nObs /\ ret.t_obs_flat.ncols = nPoles
            /\ ret.t_matrix.nrows = 3 * nObs /\ ret.t_matrix.ncols = nPoles
            /\ ret.obs_b.nrows = 1 /\ ret.obs_b.ncols = 3 * nObs
            /\ Len(ret.obs_b_flat) = 3 * nObs
            /\ \A p \in 0..(nObs - 1), c \in 0..2 :
                   /\ \A j \in 0..(nPoles - 1) :
                          /\ ret.t_obs_flat.a[3 * p + c + 1][j + 1]
                                 = ret.t.a[p + 1][c + 1][j + 1]
                          /\ ret.t_matrix.a[3 * p + c][j] = ret.t.a[p + 1][c + 1][j + 1]
                   /\ ret.obs_b.a[1][3 * p + c + 1] = Component(ret.obs[p + 1], c)
                   /\ ret.obs_b_flat[3 * p + c + 1] = Component(ret.obs[p + 1], c)

\* two observations and two poles, flattened
C24_Witness ==
    /\ ret.op = "flatten"
    /\ Len(ret.obs) = 2 /\ Len(ret.sec_locs) = 2
    /\ ret.t_obs_flat.nrows = 6
    /\ ret.t_obs_flat.a[4] /= ret.t_obs_flat.a[1]

\* C25: in secs.rs the i, j, k of the p-th prediction are entries 3 p,
\* 3 p + 1 and 3 p + 2 of the flat product T_pred * amplitudes, for every
\* p < n_pred and every n_pred >= 1.
C25_ReshapeKeepsLocations ==
    (ret.op = "Secs::predict reshape" /\ ret.n_pred >= 1) =>
        \A p \in 0..(ret.n_pred - 1) :
            /\ ret.predictions[p].i = ret.b_pred_flat[3 * p]
            /\ ret.predictions[p].j = ret.b_pred_flat[3 * p + 1]
            /\ ret.predictions[p].k = ret.b_pred_flat[3 * p + 2]

(***************************************************************************)
(* Claims checked under SpecIC.                                            *)
(***************************************************************************)
\* C9: the flag a fit returns to its caller is true exactly when that call
\* recomputed the observation transfer matrix, and false exactly when the
\* cached matrix was reused.
C9_FlagIsObsMatrixRecomputed ==
    (reply.op = "m_fit_obs" /\ reply.outcome = "ok") => (reply.flag = reply.recomputed)

\* C9, as the code has it: the flag m_fit_obs returns is true exactly when the
\* model it stores holds no cached prediction transfer matrix, whether or not
\* the call recomputed the observation transfer matrix.
C9_FlagIsPredFitNeeded ==
    (reply.op = "m_fit_obs" /\ reply.outcome = "ok") =>
        /\ IsSome(STORED_SECS)
        /\ reply.flag = ~IsSome(Unwrap(STORED_SECS).t_pred_cache)

\* an m_fit_obs that reused the cached observation transfer matrix and still
\* returned true, the stored model holding no prediction transfer matrix
C9_Witness ==
    /\ reply.op = "m_fit_obs" /\ reply.outcome = "ok"
    /\ ~reply.recomputed /\ reply.flag
    /\ IsSome(Unwrap(STORED_SECS).sec_amps)

(***************************************************************************)
(* Checked under Spec.                                                     *)
(***************************************************************************)
\* the calls that start with require_authorization
GuardedCalls ==
    {"a_add_authorized_user", "a_remove_authorized_user", "a_list_authorized_users",
     "m_fit_obs", "m_fit_pred", "m_predict", "m_scores"}

\* C20: a guarded call (every m_* call, a_add, a_remove, a_list) by a caller
\* that is not in the authorized set, or that is the anonymous principal even
\* when the set holds it, traps and leaves the stored model, the predictions
\* and the authorized set as they were.
C20_UnauthorizedCallTraps ==
    [][(/\ reply'.op \in GuardedCalls
        /\ (reply'.caller = "anonymous" \/ reply'.caller \notin AUTHORIZED_USERS)) =>
           /\ reply'.outcome = "trap"
           /\ UNCHANGED <<STORED_SECS, PREDICTIONS, AUTHORIZED_USERS>>]_vars

\* the anonymous principal is in the authorized set, a model is stored, and
\* its call of m_fit_obs has trapped
C20_Witness ==
    /\ "anonymous" \in AUTHORIZED_USERS
    /\ IsSome(STORED_SECS)
    /\ reply.op = "m_fit_obs" /\ reply.caller = "anonymous"
    /\ reply.outcome = "trap"

\* a state that only a successful a_initialize_authorized_user leads to: every
\* other call traps while the authorized set is empty, so a non-empty set, a
\* stored model, stored predictions or a successful reply mean that the
\* bootstrap has happened
Bootstrapped ==
    \/ AUTHORIZED_USERS /= {}
    \/ IsSome(STORED_SECS)
    \/ PREDICTIONS /= [abs |-> None, drv |-> None]
    \/ (reply.op /= "install" /\ reply.outcome = "ok")

\* C26: once a_initialize_authorized_user has succeeded, every later call of
\* it traps, and a principal enters the authorized set only through
\* a_add_authorized_user called by an authorized principal, whatever adds and
\* removes happen in between.
C26_BootstrapHappensOnce ==
    [][Bootstrapped =>
           /\ (reply'.op = "a_initialize_authorized_user" => reply'.outcome = "trap")
           /\ (~(AUTHORIZED_USERS' \subseteq AUTHORIZED_USERS) =>
                   /\ reply'.op = "a_add_authorized_user"
                   /\ is_authorized(reply'.caller))]_vars

\* C27: in every reachable canister state a stored model has the pole grid
\* and the pole altitude that m_fit_obs constructs it with, for every order of
\* the calls, m_fit_pred or m_predict before the first m_fit_obs included.
C27_StoredModelHasCanisterGrid ==
    IsSome(STORED_SECS) =>
        /\ Unwrap(STORED_SECS).sec_locs = CanisterPoleGrid
        /\ Unwrap(STORED_SECS).sec_locs_altitude = CanisterPoleAltitude

\* the scores m_predict stores for the raw prediction of its reply
StoredScores(raw_prediction, is_derivative) ==
    ponderate_auroral_zone(IF is_derivative THEN into_derivative_scores(raw_prediction)
                           ELSE into_scores(raw_prediction))

\* C29: PredictionStorage::store replaces one slot only: an m_predict with
\* is_derivative = true sets drv to its scores and leaves abs as it was, one
\* with is_derivative = false sets abs and leaves drv; every other call, and
\* an m_predict that traps, leaves both.
C29_StoreReplacesOneSlot ==
    [][IF reply'.op = "m_predict" /\ reply'.outcome = "ok"
       THEN IF reply'.flag
            THEN /\ PREDICTIONS'.drv = Some(StoredScores(reply'.predictions, TRUE))
                 /\ PREDICTIONS'.abs = PREDICTIONS.abs
            ELSE /\ PREDICTIONS'.abs = Some(StoredScores(reply'.predictions, FALSE))
                 /\ PREDICTIONS'.drv = PREDICTIONS.drv
       ELSE PREDICTIONS' = PREDICTIONS]_vars

\* both slots are filled: by a derivative m_predict last, after a
\* non-derivative one
C29_Witness ==
    /\ reply.op = "m_predict" /\ reply.outcome = "ok" /\ reply.flag
    /\ IsSome(PREDICTIONS.abs)
    /\ PREDICTIONS.drv = Some(StoredScores(reply.predictions, TRUE))
    /\ Len(reply.predictions) >= 1

\* the stored model holds a prediction transfer matrix: m_fit_pred has
\* succeeded at some time before
PredFitted == IsSome(STORED_SECS) /\ IsSome(Unwrap(STORED_SECS).t_pred_cache)

\* C30: m_fit_obs called by an authorized principal returns true on every
\* call made before the first successful m_fit_pred and false on every call
\* made after one.
C30_FlagTellsPredFitNeeded ==
    [][(reply'.op = "m_fit_obs" /\ is_authorized(reply'.caller)) =>
           /\ reply'.outcome = "ok"
           /\ reply'.flag = ~PredFitted]_vars

\* C10: no prediction transfer matrix is cached while the amplitudes are
\* still undefined.
C10_NoPredCacheBeforeFit ==
    IsSome(secs.t_pred_cache) => Fitted

====
